---- MODULE Spec2Model ----
(***************************************************************************)
(* Prediction-market scanner: the three entry points that classify         *)
(* markets (analyzer.ts, multi-scanner.ts, alerts.ts), the fan-out/fan-in  *)
(* over the platform adapters, the classifiers and the rankers.            *)
(*                                                                         *)
(* Numbers: a probability, a total or an edge is a fixed-point integer,    *)
(* Unit steps per percentage point, so that 97.5 and 100 / outcomes.length *)
(* are exact for up to six outcomes.  NaN probabilities are not modelled.  *)
(* An outcome is modelled by its probability; its name is its position.    *)
(***************************************************************************)
EXTENDS Integers, Sequences, FiniteSets, TLC

Unit == 2 * 2 * 3 * 5
Pct(n) == n * Unit

Null == "null"

\* what a fetchMarkets call settles with: a rejection, or a list of markets
Fail == [ok |-> FALSE, markets |-> <<>>]
Returns(ms) == [ok |-> TRUE, markets |-> ms]

(***************************************************************************)
(* Program constants                                                       *)
(***************************************************************************)
AnalyzerArbitrageCeiling == 98
AnalyzerLowRiskFloor == 97
AnalyzerMispricedTolerance == 2
AnalyzerMispricedFloor == 102
DefaultThreshold == 90
ScannerArbitrageCeiling == 98
ScannerLowRiskFloor == 97
ScannerMediumRiskFloor == 90
ScannerUniformPrior == 50
AlertArbitrageCeiling == 98
AlertNearCertainFloor == 97
HighVolumeFloor == 10000
MediumVolumeFloor == 1000
DefaultMinutes == 180
PredictItFactor == 10
ManifoldFactor == 5
maxPages == 5

(***************************************************************************)
(* Bounds of the model                                                     *)
(***************************************************************************)
MaxOutcomes == 3
MaxPerAdapter == 2
MaxRanked == 3
MaxCursors == 6
MaxRaw == 2

(***************************************************************************)
(* Generic helpers                                                         *)
(***************************************************************************)
RECURSIVE Flatten(_)
Flatten(ss) == IF ss = <<>> THEN <<>> ELSE Head(ss) \o Flatten(Tail(ss))

RECURSIVE SeqSum(_)
SeqSum(s) == IF s = <<>> THEN 0 ELSE Head(s) + SeqSum(Tail(s))

SeqsUpTo(S, n) == UNION {[1..k -> S] : k \in 0..n}

\* Array.prototype.sort(compare): stable; x goes before y when compare < 0,
\* and elements that compare equal keep their order.  Cmp(a, b) is the
\* comparator's result.
StableSort(s, Cmp(_, _)) ==
    LET Sorted(v) ==
            LET n == Len(v)
                Rank(i) == Cardinality({j \in 1..n :
                                \/ Cmp(v[j], v[i]) < 0
                                \/ (Cmp(v[j], v[i]) = 0 /\ j < i)}) + 1
            IN  [p \in 1..n |-> v[CHOOSE i \in 1..n : Rank(i) = p]]
    \* the singleton binds v to the value of s, evaluated once
    IN  CHOOSE r \in {Sorted(v) : v \in {s}} : TRUE

(***************************************************************************)
(* Adapters (platform fetchers)                                            *)
(***************************************************************************)
Adapters == {"polymarket", "kalshi", "predictit", "metaculus", "augur",
             "manifold", "oddsapi"}

\* the platformMap of multi-scanner.ts
platformMap == {"polymarket", "kalshi", "predictit", "metaculus", "augur",
                "manifold"}

PlatformName(a) ==
    CASE a = "polymarket" -> "Polymarket"
      [] a = "kalshi"     -> "Kalshi"
      [] a = "predictit"  -> "PredictIt"
      [] a = "metaculus"  -> "Metaculus"
      [] a = "augur"      -> "Augur"
      [] a = "manifold"   -> "Manifold"
      [] a = "oddsapi"    -> "OddsAPI"

\* fetchMarkets of these adapters lets an error escape (no try/catch around
\* fetch and response.json, or an explicit throw); the others catch every
\* error and fulfil.
CanReject(a) == a \in {"polymarket", "predictit", "metaculus"}

\* the sort each adapter applies before returning: ascending endDate
EndDateCmp(a, b) == a.endDate - b.endDate
SortedByEndDate(ms) == StableSort(ms, EndDateCmp) = ms

(***************************************************************************)
(* analyzer.ts                                                             *)
(***************************************************************************)
OutcomeCmp(a, b) == b - a

\* The arrays a classifier touches: the outcomes array of the market it is
\* given and the array its spread allocates.  Array.prototype.sort sorts the
\* array it is called on in place.
\* a sort called on market.outcomes itself: no array is allocated
SpreadAlias(heap, src) == [ref |-> src, heap |-> heap]

\* "[...outcomes]": a new array with the elements of the array src
Spread(heap, src) == [ref |-> "copy", heap |-> [heap EXCEPT !["copy"] = heap[src]]]

\* ".sort((a, b) => b.probability - a.probability)" on the array ref
SortInPlace(heap, ref) == [heap EXCEPT ![ref] = StableSort(heap[ref], OutcomeCmp)]

\* "[...outcomes].sort(...)": the sorted array the expression evaluates to,
\* and the elements of the outcomes array afterwards
SpreadSort(outcomes) ==
    LET spread == Spread([outcomes |-> outcomes, copy |-> <<>>], "outcomes")
        after == SortInPlace(spread.heap, spread.ref)
    IN  [sorted |-> after[spread.ref], outcomes |-> after["outcomes"]]

\* the market object after a classifier has processed it: all three return
\* before the sort when there are fewer than 2 outcomes
Processed(market) ==
    IF Len(market.outcomes) < 2 THEN market
    ELSE [market EXCEPT !.outcomes = SpreadSort(market.outcomes).outcomes]

ProcessedAll(markets) == [i \in 1..Len(markets) |-> Processed(markets[i])]

analyzeProbabilities(outcomes) ==
    IF Len(outcomes) = 0
    THEN [total |-> 0, max |-> 0, isArbitrage |-> FALSE, isMispriced |-> FALSE]
    ELSE LET total == SeqSum(outcomes)
             sorted == SpreadSort(outcomes).sorted
             diff == total - Pct(100)
         IN  [total |-> total,
              max |-> sorted[1],
              isArbitrage |-> (total < Pct(99) \/ total > Pct(101)),
              isMispriced |->
                  ((IF diff < 0 THEN -diff ELSE diff) > Pct(AnalyzerMispricedTolerance))]

\* an opportunity record that forgets the risk level it is given
OpportunityMediumRisk(type, market, total, edge, riskLevel) ==
    [type |-> type, market |-> market, totalProbability |-> total,
     edge |-> edge, riskLevel |-> "medium-risk"]

Opportunity(type, market, total, edge, riskLevel) ==
    [type |-> type, market |-> market, totalProbability |-> total,
     edge |-> edge, riskLevel |-> riskLevel]

\* the loop body with the mispriced test at any total above 100
AnalyzerClassifyAbove100(market, threshold) ==
    IF Len(market.outcomes) < 2 THEN <<>>
    ELSE LET analysis == analyzeProbabilities(market.outcomes) IN
         IF analysis.total < Pct(AnalyzerArbitrageCeiling)
         THEN <<Opportunity("arbitrage", market, analysis.total,
                            Pct(100) - analysis.total, "no-risk")>>
         ELSE IF analysis.max >= Pct(threshold)
         THEN <<Opportunity("near-certain", market, analysis.total,
                            analysis.max - (Pct(100) \div Len(market.outcomes)),
                            IF analysis.max >= Pct(AnalyzerLowRiskFloor)
                            THEN "low-risk" ELSE "medium-risk")>>
         ELSE IF analysis.total > Pct(100)
         THEN <<Opportunity("mispriced", market, analysis.total,
                            analysis.total - Pct(100), "medium-risk")>>
         ELSE <<>>

\* one iteration of the loop of findOpportunities: the opportunities pushed
\* for one market
\* the loop body without its "continue" statements: every test is made
AnalyzerClassifyFallThrough(market, threshold) ==
    IF Len(market.outcomes) < 2 THEN <<>>
    ELSE LET analysis == analyzeProbabilities(market.outcomes) IN
         (IF analysis.total < Pct(AnalyzerArbitrageCeiling)
          THEN <<Opportunity("arbitrage", market, analysis.total,
                             Pct(100) - analysis.total, "no-risk")>>
          ELSE <<>>)
         \o (IF analysis.max >= Pct(threshold)
             THEN <<Opportunity("near-certain", market, analysis.total,
                                analysis.max - (Pct(100) \div Len(market.outcomes)),
                                IF analysis.max >= Pct(AnalyzerLowRiskFloor)
                                THEN "low-risk" ELSE "medium-risk")>>
             ELSE <<>>)
         \o (IF analysis.isMispriced /\ analysis.total > Pct(AnalyzerMispricedFloor)
             THEN <<Opportunity("mispriced", market, analysis.total,
                                analysis.total - Pct(100), "medium-risk")>>
             ELSE <<>>)

AnalyzerClassify(market, threshold) ==
    IF Len(market.outcomes) < 2 THEN <<>>
    ELSE LET analysis == analyzeProbabilities(market.outcomes) IN
         IF analysis.total < Pct(AnalyzerArbitrageCeiling)
         THEN <<Opportunity("arbitrage", market, analysis.total,
                            Pct(100) - analysis.total, "no-risk")>>
         ELSE IF analysis.max >= Pct(threshold)
         THEN <<Opportunity("near-certain", market, analysis.total,
                            analysis.max - (Pct(100) \div Len(market.outcomes)),
                            IF analysis.max >= Pct(AnalyzerLowRiskFloor)
                            THEN "low-risk" ELSE "medium-risk")>>
         ELSE IF analysis.isMispriced /\ analysis.total > Pct(AnalyzerMispricedFloor)
         THEN <<Opportunity("mispriced", market, analysis.total,
                            analysis.total - Pct(100), "medium-risk")>>
         ELSE <<>>

riskOrder(level) ==
    CASE level = "no-risk"     -> 0
      [] level = "low-risk"    -> 1
      [] level = "medium-risk" -> 2

\* a comparator that forgets the risk level
EdgeOnly(a, b) == b.edge - a.edge

RiskThenEdge(a, b) ==
    LET riskDiff == riskOrder(a.riskLevel) - riskOrder(b.riskLevel)
    IN  IF riskDiff # 0 THEN riskDiff ELSE b.edge - a.edge

\* a sort that puts opportunities that compare equal in reverse input order
SortOpportunitiesTiesReversed(opps) ==
    StableSort([i \in 1..Len(opps) |-> opps[Len(opps) + 1 - i]], RiskThenEdge)

SortOpportunities(opps) == StableSort(opps, RiskThenEdge)

findOpportunities(markets, threshold) ==
    SortOpportunities(
        Flatten([i \in 1..Len(markets) |-> AnalyzerClassify(markets[i], threshold)]))

(***************************************************************************)
(* multi-scanner.ts                                                        *)
(***************************************************************************)
\* analyzeMarket with the near-certain tests ahead of the arbitrage test
analyzeMarketNearFirst(market) ==
    IF Len(market.outcomes) < 2 THEN [type |-> Null]
    ELSE LET total == SeqSum(market.outcomes)
             sorted == StableSort(market.outcomes, OutcomeCmp)
             max == sorted[1]
         IN  IF max >= Pct(ScannerLowRiskFloor)
             THEN Opportunity("near-certain", market, total,
                              max - Pct(ScannerUniformPrior), "low-risk")
             ELSE IF max >= Pct(ScannerMediumRiskFloor)
             THEN Opportunity("near-certain", market, total,
                              max - Pct(ScannerUniformPrior), "medium-risk")
             ELSE IF total < Pct(ScannerArbitrageCeiling)
             THEN Opportunity("arbitrage", market, total, Pct(100) - total, "no-risk")
             ELSE [type |-> Null]

\* the null that analyzeMarket returns for "no opportunity"
NoOpportunity == [type |-> Null]

\* analyzeMarket with a non-strict arbitrage test
analyzeMarketCeilingIncluded(market) ==
    IF Len(market.outcomes) < 2 THEN NoOpportunity
    ELSE LET total == SeqSum(market.outcomes)
             sorted == StableSort(market.outcomes, OutcomeCmp)
             max == sorted[1]
         IN  IF total <= Pct(ScannerArbitrageCeiling)
             THEN Opportunity("arbitrage", market, total, Pct(100) - total, "no-risk")
             ELSE IF max >= Pct(ScannerLowRiskFloor)
             THEN Opportunity("near-certain", market, total,
                              max - Pct(ScannerUniformPrior), "low-risk")
             ELSE IF max >= Pct(ScannerMediumRiskFloor)
             THEN Opportunity("near-certain", market, total,
                              max - Pct(ScannerUniformPrior), "medium-risk")
             ELSE NoOpportunity

analyzeMarket(market) ==
    IF Len(market.outcomes) < 2 THEN NoOpportunity
    ELSE LET total == SeqSum(market.outcomes)
             sorted == SpreadSort(market.outcomes).sorted
             max == sorted[1]
         IN  IF total < Pct(ScannerArbitrageCeiling)
             THEN Opportunity("arbitrage", market, total, Pct(100) - total, "no-risk")
             ELSE IF max >= Pct(ScannerLowRiskFloor)
             THEN Opportunity("near-certain", market, total,
                              max - Pct(ScannerUniformPrior), "low-risk")
             ELSE IF max >= Pct(ScannerMediumRiskFloor)
             THEN Opportunity("near-certain", market, total,
                              max - Pct(ScannerUniformPrior), "medium-risk")
             ELSE NoOpportunity

\* the loop "for (const market of allMarkets) { opp = analyzeMarket(market);
\* if (opp) opportunities.push(opp) }"
AnalyzeAll(markets) ==
    Flatten([i \in 1..Len(markets) |->
                IF analyzeMarket(markets[i]) = NoOpportunity THEN <<>>
                ELSE <<analyzeMarket(markets[i])>>])

\* selectedPlatforms.map(name => platformMap[name]).filter(Boolean)
Fetchers(selected) == SelectSeq(selected, LAMBDA name : name \in platformMap)

\* parseInt(args[i + 1], 10) || 180, or 180 without --minutes
ParseMinutes(args) == IF args = <<>> \/ args[1] = 0 THEN DefaultMinutes ELSE args[1]

\* the calls of the scanner: every fetcher with minutesAhead
MultiCalls(fs, minutes) ==
    [i \in 1..Len(fs) |-> [adapter |-> fs[i], minutes |-> minutes]]

(***************************************************************************)
(* alerts.ts                                                               *)
(***************************************************************************)
\* an alert record that forgets the severity it is given
AlertSeverityHigh(type, severity, market, total, edge, topProbability) ==
    [type |-> type, severity |-> "high", market |-> market,
     totalProbability |-> total, edge |-> edge,
     topProbability |-> topProbability, volume |-> market.volume24h]

Alert(type, severity, market, total, edge, topProbability) ==
    [type |-> type, severity |-> severity, market |-> market,
     totalProbability |-> total, edge |-> edge,
     topProbability |-> topProbability, volume |-> market.volume24h]

\* the loop body skipping only the markets without any outcome
AlertsForSkipEmpty(market) ==
    IF Len(market.outcomes) < 1 THEN <<>>
    ELSE LET total == SeqSum(market.outcomes)
             sorted == StableSort(market.outcomes, OutcomeCmp)
             max == sorted[1]
             arb == IF total < Pct(AlertArbitrageCeiling) /\ total > 0
                    THEN <<Alert("arbitrage", "critical", market, total,
                                 Pct(100) - total, Null)>>
                    ELSE <<>>
             near == IF max >= Pct(AlertNearCertainFloor)
                        /\ market.volume24h >= HighVolumeFloor
                     THEN <<Alert("near-certain-high-volume", "high", market,
                                  Null, Null, max)>>
                     ELSE IF max >= Pct(AlertNearCertainFloor)
                             /\ market.volume24h >= MediumVolumeFloor
                     THEN <<Alert("near-certain-high-volume", "medium", market,
                                  Null, Null, max)>>
                     ELSE <<>>
         IN  arb \o near

\* one iteration of the loop of scanForAlerts: the alerts pushed for one market
AlertsFor(market) ==
    IF Len(market.outcomes) < 2 THEN <<>>
    ELSE LET total == SeqSum(market.outcomes)
             sorted == SpreadSort(market.outcomes).sorted
             max == sorted[1]
             arb == IF total < Pct(AlertArbitrageCeiling) /\ total > 0
                    THEN <<Alert("arbitrage", "critical", market, total,
                                 Pct(100) - total, Null)>>
                    ELSE <<>>
             near == IF max >= Pct(AlertNearCertainFloor)
                        /\ market.volume24h >= HighVolumeFloor
                     THEN <<Alert("near-certain-high-volume", "high", market,
                                  Null, Null, max)>>
                     ELSE IF max >= Pct(AlertNearCertainFloor)
                             /\ market.volume24h >= MediumVolumeFloor
                     THEN <<Alert("near-certain-high-volume", "medium", market,
                                  Null, Null, max)>>
                     ELSE <<>>
         IN  arb \o near

severityOrder(severity) ==
    CASE severity = "critical" -> 0
      [] severity = "high"     -> 1
      [] severity = "medium"   -> 2

SeverityCmp(a, b) == severityOrder(a.severity) - severityOrder(b.severity)

\* a sort by severity that reverses the alerts of equal severity
SortAlertsTiesReversed(as) ==
    StableSort([i \in 1..Len(as) |-> as[Len(as) + 1 - i]], SeverityCmp)

SortAlerts(as) == StableSort(as, SeverityCmp)

ClassifyAlerts(markets) ==
    SortAlerts(Flatten([i \in 1..Len(markets) |-> AlertsFor(markets[i])]))

\* the end of main: writeFileSync('/tmp/alerts.json', ...) comes before the
\* exit; when it throws, main() rejects, ".catch(console.error)" logs the
\* error and the process ends with status 0; when it succeeds,
\* process.exit(1) runs if a critical alert exists
AlertsExit(as, written) ==
    IF ~written THEN 0
    ELSE IF \E k \in 1..Len(as) : as[k].severity = "critical" THEN 1 ELSE 0

\* the four calls, each with the same lookahead
AlertsCallsUniform(minutes) ==
    << [adapter |-> "polymarket", minutes |-> minutes],
       [adapter |-> "predictit",  minutes |-> minutes],
       [adapter |-> "manifold",   minutes |-> minutes],
       [adapter |-> "oddsapi",    minutes |-> minutes] >>

\* the four calls of scanForAlerts, in the order of the array literal
AlertsCalls(minutes) ==
    << [adapter |-> "polymarket", minutes |-> minutes],
       [adapter |-> "predictit",  minutes |-> minutes * PredictItFactor],
       [adapter |-> "manifold",   minutes |-> minutes * ManifoldFactor],
       [adapter |-> "oddsapi",    minutes |-> minutes] >>

(***************************************************************************)
(* Promise.allSettled and the fold over its results                        *)
(***************************************************************************)
Pending == [status |-> "pending", value |-> <<>>]
Fulfilled(v) == [status |-> "fulfilled", value |-> v]
Rejected == [status |-> "rejected", value |-> <<>>]

\* results collected in order of completion: the next free slot
RecordResultArrival(rs, i, r) ==
    LET free == CHOOSE k \in 1..Len(rs) :
                    /\ rs[k].status = "pending"
                    /\ \A g \in 1..(k - 1) : rs[g].status # "pending"
    IN  [rs EXCEPT ![free] = r]

\* allSettled keeps each result in the slot of its promise
RecordResult(rs, i, r) == [rs EXCEPT ![i] = r]

\* a join that resolves with the first promise to settle
AnySettled(rs) == \E i \in 1..Len(rs) : rs[i].status # "pending"

\* allSettled resolves when no promise is pending
AllSettled(rs) == \A i \in 1..Len(rs) : rs[i].status # "pending"

\* a fold that gives up when a promise rejected (Promise.all)
CombineUnlessRejected(rs) ==
    IF \E i \in 1..Len(rs) : rs[i].status = "rejected" THEN <<>>
    ELSE Flatten([i \in 1..Len(rs) |-> rs[i].value])

\* "for (const result of results) if (result.status === 'fulfilled')
\*  allMarkets.push(...result.value)"
CombineFulfilled(rs) ==
    Flatten([i \in 1..Len(rs) |->
                IF rs[i].status = "fulfilled" THEN rs[i].value ELSE <<>>])

\* the inner async callback of multi-scanner catches the rejection and
\* returns { markets: [] }
WrapRejection == Fulfilled(<<>>)

(***************************************************************************)
(* State                                                                   *)
(***************************************************************************)
VARIABLES
    prog,               \* the entry point that runs
    pc,                 \* "start", "await" (suspended in allSettled), "done"
    cliMinutes,         \* <<n>> for --minutes n, <<>> without the option
    selectedPlatforms,  \* the platform names of --platforms, or the default
    threshold,          \* analyzer: --threshold
    inputFile,          \* analyzer: the markets of the input file
    remote,             \* what each adapter's fetchMarkets settles with
    minutesAhead,
    fetchers,
    calls,              \* the fetchMarkets calls made, in call order
    results,            \* the promises handed to Promise.allSettled
    allMarkets,
    opportunities,
    alerts,
    alertsFileWritable, \* alerts: whether writeFileSync('/tmp/alerts.json') succeeds
    exitCode,
    \* one run of an adapter's fetchMarkets(minutesAhead)
    fetcher,            \* the adapter whose fetchMarkets runs, or "index"
    now,                \* new Date() at the start of the call, in minutes
    lookahead,          \* the minutesAhead argument
    server,             \* what the platform's API answers
    fpc,                \* "idle", "start", "loop", "return", "returned"
    pages,              \* kalshi: the loop counter
    cursor,             \* kalshi: whether the last response carried a cursor
    requests,           \* the page requests issued so far
    fetched,            \* the local "markets": the markets collected so far
    settled             \* what the call settled with: Fail or Returns(...)

scanVars == <<prog, pc, cliMinutes, selectedPlatforms, threshold, inputFile, remote,
              alertsFileWritable, minutesAhead, fetchers, calls, results, allMarkets,
              opportunities, alerts, exitCode>>

fetchVars == <<fetcher, now, lookahead, server, fpc, pages, cursor, requests,
               fetched, settled>>

vars == <<scanVars, fetchVars>>

inputs == <<prog, cliMinutes, selectedPlatforms, threshold, inputFile, remote,
            alertsFileWritable>>

DefaultPlatforms == <<"polymarket", "kalshi", "predictit">>
AlertAdapters == {"polymarket", "predictit", "manifold", "oddsapi"}

Market(id, adapter, endDate, outcomes, volume24h) ==
    [id |-> id, platform |-> PlatformName(adapter), endDate |-> endDate,
     outcomes |-> outcomes, volume24h |-> volume24h]

NoMarkets == [a \in Adapters |-> Returns(<<>>)]

\* no fetchMarkets call is modelled in detail: the scans take what each
\* call settles with from remote
FetchIdle ==
    /\ fetcher = Null
    /\ now = 0
    /\ lookahead = 0
    /\ server = <<>>
    /\ fpc = "idle"
    /\ pages = 0
    /\ cursor = FALSE
    /\ requests = 0
    /\ fetched = <<>>
    /\ settled = Pending

InitRun ==
    /\ FetchIdle
    /\ pc = "start"
    /\ minutesAhead = DefaultMinutes
    /\ fetchers = <<>>
    /\ calls = <<>>
    /\ results = <<>>
    /\ allMarkets = <<>>
    /\ opportunities = <<>>
    /\ alerts = <<>>
    /\ exitCode = Null

(***************************************************************************)
(* Input domains                                                           *)
(***************************************************************************)
\* no --minutes, a positive value, "0" and a negative value
CliMinutes == {<<>>, <<60>>, <<0>>, <<-5>>}

\* scans: what matters is which adapter a market comes from and when it ends
EndDates == {1, 2}
ScanMarkets(a) == {Market(1, a, e, <<Pct(50), Pct(50)>>, 0) : e \in EndDates}
ScanLists(a) == {ms \in SeqsUpTo(ScanMarkets(a), MaxPerAdapter) : SortedByEndDate(ms)}
ScanOutcomes ==
    [a \in Adapters |-> {Returns(ms) : ms \in ScanLists(a)}
                          \cup (IF CanReject(a) THEN {Fail} ELSE {})]
Selections == {DefaultPlatforms, <<"polymarket", "polymarket">>,
               <<"predictit", "bogus", "kalshi">>, <<>>}

\* every assignment of an outcome to the adapters of used; the others are
\* never called
RECURSIVE RemoteOver(_)
RemoteOver(used) ==
    IF used = {} THEN {NoMarkets}
    ELSE LET a == CHOOSE x \in used : TRUE
         IN  {[r EXCEPT ![a] = o] : r \in RemoteOver(used \ {a}), o \in ScanOutcomes[a]}

InitScan ==
    /\ InitRun
    /\ cliMinutes \in CliMinutes
    /\ threshold = DefaultThreshold
    /\ \/ /\ prog = "multi-scanner"
          /\ selectedPlatforms \in Selections
          /\ inputFile = <<>>
          /\ remote \in RemoteOver({selectedPlatforms[i] : i \in 1..Len(selectedPlatforms)}
                                   \cap platformMap)
          /\ alertsFileWritable = TRUE
       \/ /\ prog = "alerts"
          /\ selectedPlatforms = <<>>
          /\ inputFile = <<>>
          /\ remote \in RemoteOver(AlertAdapters)
          /\ alertsFileWritable = TRUE
       \/ /\ prog = "analyzer"
          /\ selectedPlatforms = <<>>
          /\ inputFile \in SeqsUpTo(ScanMarkets("polymarket"), MaxPerAdapter)
          /\ remote = NoMarkets
          /\ alertsFileWritable = TRUE

\* classification: one market of any shape, delivered by the file or by the
\* Polymarket adapter (the adapter that passes outcomes and volume through)
ProbValues == {Pct(p) : p \in {0, 1, 2, 10, 40, 58, 60, 90, 97, 100}}
Volumes == {999, 1000, 10000}
Thresholds == {DefaultThreshold, 95}
ClassifyMarkets ==
    {Market(1, "polymarket", 1, os, v) :
        os \in SeqsUpTo(ProbValues, MaxOutcomes), v \in Volumes}

\* the wiring of a market list ms into each entry point
Feeds(ms) ==
    /\ InitRun
    /\ cliMinutes = <<>>
    /\ \/ /\ prog = "analyzer"
          /\ threshold \in Thresholds
          /\ selectedPlatforms = <<>>
          /\ inputFile = ms
          /\ remote = NoMarkets
          /\ alertsFileWritable = TRUE
       \/ /\ prog = "multi-scanner"
          /\ threshold = DefaultThreshold
          /\ selectedPlatforms \in {<<"polymarket">>, <<"metaculus", "polymarket">>}
          /\ inputFile = <<>>
          /\ remote \in {[NoMarkets EXCEPT !["polymarket"] = Returns(ms)],
                         [NoMarkets EXCEPT !["polymarket"] = Returns(ms), !["metaculus"] = Fail]}
          /\ remote["metaculus"] = Fail <=> Len(selectedPlatforms) = 2
          /\ alertsFileWritable = TRUE
       \/ /\ prog = "alerts"
          /\ threshold = DefaultThreshold
          /\ selectedPlatforms = <<>>
          /\ inputFile = <<>>
          /\ remote = [NoMarkets EXCEPT !["polymarket"] = Returns(ms)]
          /\ alertsFileWritable \in BOOLEAN

InitClassify == \E m \in ClassifyMarkets : Feeds(<<m>>)

\* ranking: lists of markets that differ in risk level, edge, severity, with
\* ties; the i-th market of a list has id i and ends at i
Profiles ==
    { [outcomes |-> <<Pct(40), Pct(55)>>, volume24h |-> 0],
      [outcomes |-> <<Pct(97), Pct(0)>>,  volume24h |-> 1000],
      [outcomes |-> <<Pct(98), Pct(2)>>,  volume24h |-> 10000],
      [outcomes |-> <<Pct(98), Pct(2)>>,  volume24h |-> 1000],
      [outcomes |-> <<Pct(92), Pct(8)>>,  volume24h |-> 0],
      [outcomes |-> <<Pct(60), Pct(60)>>, volume24h |-> 0],
      [outcomes |-> <<Pct(80), Pct(20)>>, volume24h |-> 0],
      [outcomes |-> <<Pct(50)>>,          volume24h |-> 0],
      [outcomes |-> <<>>,                 volume24h |-> 0] }
RankedLists ==
    {[i \in 1..Len(ps) |-> Market(i, "polymarket", i, ps[i].outcomes, ps[i].volume24h)] :
        ps \in SeqsUpTo(Profiles, MaxRanked)}

InitRank == \E ms \in RankedLists : Feeds(ms)

(***************************************************************************)
(* Actions                                                                 *)
(***************************************************************************)
\* analyzer.ts main: read the file, findOpportunities, print
AnalyzerMain ==
    /\ prog = "analyzer"
    /\ pc = "start"
    /\ opportunities' = findOpportunities(inputFile, threshold)
    /\ allMarkets' = ProcessedAll(inputFile)
    /\ exitCode' = 0
    /\ pc' = "done"
    /\ UNCHANGED <<inputs, fetchVars, minutesAhead, fetchers, calls, results, alerts>>

\* multi-scanner.ts main up to "await Promise.allSettled(...)": every callback
\* of fetchers.map runs to its own await, which calls fetchMarkets
MultiStart ==
    /\ prog = "multi-scanner"
    /\ pc = "start"
    /\ minutesAhead' = ParseMinutes(cliMinutes)
    /\ fetchers' = Fetchers(selectedPlatforms)
    /\ calls' = MultiCalls(fetchers', minutesAhead')
    /\ results' = [i \in 1..Len(fetchers') |-> Pending]
    /\ pc' = "await"
    /\ UNCHANGED <<inputs, fetchVars, allMarkets, opportunities, alerts, exitCode>>

\* alerts.ts main and scanForAlerts up to "await Promise.allSettled([...])"
AlertsStart ==
    /\ prog = "alerts"
    /\ pc = "start"
    /\ minutesAhead' = ParseMinutes(cliMinutes)
    /\ calls' = AlertsCalls(minutesAhead')
    /\ fetchers' = [i \in 1..Len(calls') |-> calls'[i].adapter]
    /\ results' = [i \in 1..Len(calls') |-> Pending]
    /\ pc' = "await"
    /\ UNCHANGED <<inputs, fetchVars, allMarkets, opportunities, alerts, exitCode>>

\* the i-th fetchMarkets call fulfils
AdapterFulfil(i) ==
    /\ pc = "await"
    /\ results[i].status = "pending"
    /\ remote[calls[i].adapter].ok
    /\ results' = RecordResult(results, i, Fulfilled(remote[calls[i].adapter].markets))
    /\ UNCHANGED <<inputs, fetchVars, pc, minutesAhead, fetchers, calls, allMarkets,
                   opportunities, alerts, exitCode>>

\* the i-th fetchMarkets call rejects
AdapterReject(i) ==
    /\ pc = "await"
    /\ results[i].status = "pending"
    /\ ~remote[calls[i].adapter].ok
    /\ results' = RecordResult(results, i,
                      IF prog = "multi-scanner" THEN WrapRejection ELSE Rejected)
    /\ UNCHANGED <<inputs, fetchVars, pc, minutesAhead, fetchers, calls, allMarkets,
                   opportunities, alerts, exitCode>>

\* multi-scanner.ts main after allSettled: combine, analyze, sort, print
MultiResume ==
    /\ prog = "multi-scanner"
    /\ pc = "await"
    /\ AllSettled(results)
    /\ opportunities' = SortOpportunities(AnalyzeAll(CombineFulfilled(results)))
    /\ allMarkets' = ProcessedAll(CombineFulfilled(results))
    /\ exitCode' = 0
    /\ pc' = "done"
    /\ UNCHANGED <<inputs, fetchVars, minutesAhead, fetchers, calls, results, alerts>>

\* scanForAlerts after allSettled, then the rest of main: combine, classify,
\* sort, print, save, exit
AlertsResume ==
    /\ prog = "alerts"
    /\ pc = "await"
    /\ AllSettled(results)
    /\ alerts' = ClassifyAlerts(CombineFulfilled(results))
    /\ allMarkets' = ProcessedAll(CombineFulfilled(results))
    /\ exitCode' = AlertsExit(alerts', alertsFileWritable)
    /\ pc' = "done"
    /\ UNCHANGED <<inputs, fetchVars, minutesAhead, fetchers, calls, results,
                   opportunities>>

Settle == \E i \in 1..Len(results) : AdapterFulfil(i)
Throw == \E i \in 1..Len(results) : AdapterReject(i)

Next ==
    \/ AnalyzerMain
    \/ MultiStart
    \/ AlertsStart
    \/ Settle
    \/ Throw
    \/ MultiResume
    \/ AlertsResume

Spec == InitScan /\ [][Next]_vars
SpecClassify == InitClassify /\ [][Next]_vars
SpecRank == InitRank /\ [][Next]_vars

(***************************************************************************)
(* Platform adapters: one call of fetchMarkets(minutesAhead)               *)
(*                                                                         *)
(* Time is in minutes.  A field that may be missing is a sequence: <<>>    *)
(* when missing, <<v>> when present.  An HTTP answer has a status: "ok",   *)
(* "error" (response.ok is false) or "throw" (fetch or response.json()     *)
(* throws).                                                                *)
(***************************************************************************)
\* new Date(now.getTime() + minutesAhead * 60 * 1000)
Cutoff(t, minutes) == t + minutes

\* the adapters skip a market when "endDate <= now || endDate > cutoff"
\* a binary market whose No outcome repeats the Yes probability
SameAsYes(yes) == yes
\* the No outcome of a binary market: 100 - yes
Complement(yes) == Pct(100) - yes

InWindow(endDate, t, minutes) == ~(endDate <= t \/ endDate > Cutoff(t, minutes))

\* the scan variables of a run that only calls one fetchMarkets
ScanIdle ==
    /\ prog = Null
    /\ pc = "idle"
    /\ cliMinutes = <<>>
    /\ selectedPlatforms = <<>>
    /\ threshold = DefaultThreshold
    /\ inputFile = <<>>
    /\ remote = NoMarkets
    /\ alertsFileWritable = TRUE
    /\ minutesAhead = DefaultMinutes
    /\ fetchers = <<>>
    /\ calls = <<>>
    /\ results = <<>>
    /\ allMarkets = <<>>
    /\ opportunities = <<>>
    /\ alerts = <<>>
    /\ exitCode = Null

\* the variables of the call before its first statement
FetchCall ==
    /\ ScanIdle
    /\ fpc = "start"
    /\ pages = 0
    /\ cursor = FALSE
    /\ requests = 0
    /\ fetched = <<>>
    /\ settled = Pending

\* the call times and windows tried: the window is (now, now + lookahead]
FetchNow == {5}
FetchLookahead == {2}

(***************************************************************************)
(* kalshi.fetchMarkets                                                     *)
(***************************************************************************)
\* raw.expected_expiration_time || raw.expiration_time
KalshiExpTime(raw) ==
    IF raw.expected_expiration_time # <<>> THEN raw.expected_expiration_time
    ELSE raw.expiration_time

\* raw.last_price || ((raw.yes_bid + raw.yes_ask) / 2), prices in cents
KalshiYes(raw) ==
    IF raw.last_price # 0 THEN Pct(raw.last_price)
    ELSE Pct(raw.yes_bid + raw.yes_ask) \div 2

\* the body of "for (const raw of data.markets)": the markets pushed for raw
KalshiMarket(raw, t, minutes) ==
    IF raw.status # "active" THEN <<>>
    ELSE IF KalshiExpTime(raw) = <<>> THEN <<>>
    ELSE IF ~InWindow(KalshiExpTime(raw)[1], t, minutes) THEN <<>>
    ELSE <<Market(raw.ticker, "kalshi", KalshiExpTime(raw)[1],
                  <<KalshiYes(raw), Complement(KalshiYes(raw))>>, raw.volume_24h)>>

KalshiMarkets(raws, t, minutes) ==
    Flatten([i \in 1..Len(raws) |-> KalshiMarket(raws[i], t, minutes)])

\* a loop that goes on as long as the responses carry a cursor
LoopWhileCursor(p) == TRUE

\* "while (pages < maxPages)"
LoopContinues(p) == p < maxPages

\* the raw markets the API is made to answer with
KalshiKinds ==
    { [status |-> "active", expected_expiration_time |-> <<6>>,
       expiration_time |-> <<8>>, last_price |-> 97, yes_bid |-> 0, yes_ask |-> 0,
       volume_24h |-> 10000],
      [status |-> "active", expected_expiration_time |-> <<>>,
       expiration_time |-> <<7>>, last_price |-> 0, yes_bid |-> 40, yes_ask |-> 41,
       volume_24h |-> 0],
      [status |-> "active", expected_expiration_time |-> <<>>,
       expiration_time |-> <<8>>, last_price |-> 50, yes_bid |-> 0, yes_ask |-> 0,
       volume_24h |-> 0],
      [status |-> "active", expected_expiration_time |-> <<>>,
       expiration_time |-> <<5>>, last_price |-> 50, yes_bid |-> 0, yes_ask |-> 0,
       volume_24h |-> 0],
      [status |-> "active", expected_expiration_time |-> <<>>,
       expiration_time |-> <<>>, last_price |-> 50, yes_bid |-> 0, yes_ask |-> 0,
       volume_24h |-> 0],
      [status |-> "closed", expected_expiration_time |-> <<6>>,
       expiration_time |-> <<6>>, last_price |-> 50, yes_bid |-> 0, yes_ask |-> 0,
       volume_24h |-> 0] }

\* the Kalshi API: the first "cursors" responses carry a cursor, response
\* number failAt (if any) is an error or throws, and the r-th response
\* holds one raw market, of kind kinds[1] on odd pages and kinds[2] on even
KalshiServers ==
    [cursors : 0..MaxCursors, failAt : 0..MaxCursors,
     failKind : {"error", "throw"}, kinds : [1..2 -> KalshiKinds]]

KalshiResponse(srv, r) ==
    [status |-> IF r = srv.failAt THEN srv.failKind ELSE "ok",
     markets |-> <<[ticker |-> r] @@ srv.kinds[2 - (r % 2)]>>,
     cursor |-> r <= srv.cursors]

InitKalshi ==
    /\ FetchCall
    /\ fetcher = "kalshi"
    /\ now \in FetchNow
    /\ lookahead \in FetchLookahead
    /\ server \in {srv \in KalshiServers : srv.failAt = 0 => srv.failKind = "error"}

\* the statements before the loop
KalshiStart ==
    /\ fetcher = "kalshi"
    /\ fpc = "start"
    /\ fpc' = IF LoopContinues(0) THEN "loop" ELSE "return"
    /\ UNCHANGED <<scanVars, fetcher, now, lookahead, server, pages, cursor,
                   requests, fetched, settled>>

\* one iteration of the loop: the request, and what follows its response
KalshiPage ==
    /\ fetcher = "kalshi"
    /\ fpc = "loop"
    /\ requests' = requests + 1
    /\ LET response == KalshiResponse(server, requests') IN
       IF response.status = "throw"
       THEN \* caught after the loop
            /\ fpc' = "return"
            /\ UNCHANGED <<pages, cursor, fetched>>
       ELSE IF response.status = "error"
       THEN \* if (!response.ok) break
            /\ fpc' = "return"
            /\ UNCHANGED <<pages, cursor, fetched>>
       ELSE /\ fetched' = fetched \o KalshiMarkets(response.markets, now, lookahead)
            /\ cursor' = response.cursor
            /\ IF ~cursor'
               THEN fpc' = "return" /\ UNCHANGED pages
               ELSE /\ pages' = pages + 1
                    /\ fpc' = IF LoopContinues(pages') THEN "loop" ELSE "return"
    /\ UNCHANGED <<scanVars, fetcher, now, lookahead, server, settled>>

\* "return markets.sort(...)"
KalshiReturn ==
    /\ fetcher = "kalshi"
    /\ fpc = "return"
    /\ fetched' = StableSort(fetched, EndDateCmp)
    /\ settled' = Returns(fetched')
    /\ fpc' = "returned"
    /\ UNCHANGED <<scanVars, fetcher, now, lookahead, server, pages, cursor, requests>>

(***************************************************************************)
(* polymarket.fetchMarkets                                                 *)
(***************************************************************************)
\* a JSON text: JSON.parse returns value when valid and throws otherwise
Json(value) == [valid |-> TRUE, value |-> value]
NotJson == [valid |-> FALSE, value |-> <<>>]

\* parseFloat(price) * 100, the price text being hundredths ("0.97" is 97)
PriceToProbability(hundredths) == Pct(hundredths)

\* the try/catch around the two JSON.parse calls: outcomes stays [] when
\* one of them throws
PolymarketOutcomes(raw) ==
    IF ~raw.outcomes.valid \/ ~raw.outcomePrices.valid THEN <<>>
    ELSE [i \in 1..Len(raw.outcomes.value) |->
             PriceToProbability(raw.outcomePrices.value[i])]

\* the body of "for (const raw of rawMarkets)": the markets pushed for raw
PolymarketMarket(raw, t, minutes) ==
    IF raw.endDate = <<>> \/ raw.closed \/ ~raw.active THEN <<>>
    ELSE IF ~InWindow(raw.endDate[1], t, minutes) THEN <<>>
    ELSE <<Market(raw.id, "polymarket", raw.endDate[1], PolymarketOutcomes(raw),
                  raw.volume24hr)>>

PolymarketMarkets(raws, t, minutes) ==
    Flatten([i \in 1..Len(raws) |-> PolymarketMarket(raws[i], t, minutes)])

\* the raw markets the API is made to answer with
PolymarketRaw(endDate, closed, active, outcomes, outcomePrices, volume24hr) ==
    [endDate |-> endDate, closed |-> closed, active |-> active,
     outcomes |-> outcomes, outcomePrices |-> outcomePrices,
     volume24hr |-> volume24hr]
YesNo == Json(<<"Yes", "No">>)
PolymarketKinds ==
    { PolymarketRaw(<<6>>, FALSE, TRUE, YesNo, Json(<<97, 1>>), 10000),
      PolymarketRaw(<<7>>, FALSE, TRUE, YesNo, Json(<<40, 58>>), 0),
      PolymarketRaw(<<8>>, FALSE, TRUE, YesNo, Json(<<50, 50>>), 0),
      PolymarketRaw(<<5>>, FALSE, TRUE, YesNo, Json(<<50, 50>>), 0),
      PolymarketRaw(<<>>,  FALSE, TRUE, YesNo, Json(<<50, 50>>), 0),
      PolymarketRaw(<<6>>, TRUE,  TRUE, YesNo, Json(<<50, 50>>), 0),
      PolymarketRaw(<<6>>, FALSE, FALSE, YesNo, Json(<<50, 50>>), 0),
      PolymarketRaw(<<6>>, FALSE, TRUE, NotJson, Json(<<50, 50>>), 0),
      PolymarketRaw(<<6>>, FALSE, TRUE, YesNo, NotJson, 0) }

\* lists of up to MaxRaw raw items, the i-th with id i
RawLists(kinds) ==
    {[i \in 1..Len(ks) |-> [id |-> i] @@ ks[i]] : ks \in SeqsUpTo(kinds, MaxRaw)}

\* the answers to one request: a body, an error status, or a throw
Answers(bodies) ==
    {[status |-> "ok", body |-> b] : b \in bodies}
        \cup {[status |-> "error", body |-> <<>>], [status |-> "throw", body |-> <<>>]}

InitPolymarket ==
    /\ FetchCall
    /\ fetcher = "polymarket"
    /\ now \in FetchNow
    /\ lookahead \in FetchLookahead
    /\ server \in Answers(RawLists(PolymarketKinds))

\* the whole call: fetch throws or "throw new Error" rejects it; otherwise
\* the loop over rawMarkets and the sort
PolymarketFetch ==
    /\ fetcher = "polymarket"
    /\ fpc = "start"
    /\ requests' = 1
    /\ IF server.status # "ok"
       THEN /\ fetched' = <<>>
            /\ settled' = Fail
            /\ fpc' = "threw"
       ELSE /\ fetched' = StableSort(PolymarketMarkets(server.body, now, lookahead),
                                     EndDateCmp)
            /\ settled' = Returns(fetched')
            /\ fpc' = "returned"
    /\ UNCHANGED <<scanVars, fetcher, now, lookahead, server, pages, cursor>>

(***************************************************************************)
(* predictit.fetchMarkets                                                  *)
(***************************************************************************)
Contract(status, dateEnd, lastTradePrice, bestBuyYesCost) ==
    [status |-> status, dateEnd |-> dateEnd, lastTradePrice |-> lastTradePrice,
     bestBuyYesCost |-> bestBuyYesCost]

OpenContracts(raw) == SelectSeq(raw.contracts, LAMBDA c : c.status = "Open")

\* the end dates of the open contracts that pass
\* "contractEnd > now && contractEnd <= cutoff"
ContractEnds(raw, t, minutes) ==
    {c.dateEnd[1] : c \in {d \in {OpenContracts(raw)[i] : i \in DOMAIN OpenContracts(raw)} :
                              /\ d.dateEnd # <<>>
                              /\ d.dateEnd[1] > t
                              /\ d.dateEnd[1] <= Cutoff(t, minutes)}}

\* (lastTradePrice || bestBuyYesCost || 0) * 100, prices in hundredths
ContractProbability(c) ==
    IF c.lastTradePrice # 0 THEN Pct(c.lastTradePrice)
    ELSE IF c.bestBuyYesCost # 0 THEN Pct(c.bestBuyYesCost)
    ELSE Pct(0)

PredictitMarket(raw, t, minutes) ==
    LET ends == ContractEnds(raw, t, minutes) IN
    IF ends = {} THEN <<>>
    ELSE LET earliestEnd == CHOOSE e \in ends : \A f \in ends : e <= f
             open == OpenContracts(raw)
         IN  <<Market(raw.id, "predictit", earliestEnd,
                      [i \in 1..Len(open) |-> ContractProbability(open[i])], 0)>>

PredictitMarkets(raws, t, minutes) ==
    Flatten([i \in 1..Len(raws) |-> PredictitMarket(raws[i], t, minutes)])

PredictitKinds ==
    {[contracts |-> cs] : cs \in
        { <<Contract("Open", <<6>>, 40, 0), Contract("Open", <<7>>, 0, 58)>>,
          <<Contract("Open", <<7>>, 97, 0), Contract("Open", <<6>>, 2, 0)>>,
          <<Contract("Open", <<>>, 60, 0), Contract("Open", <<8>>, 60, 0)>>,
          <<Contract("Closed", <<6>>, 50, 0), Contract("Open", <<5>>, 50, 0)>>,
          <<Contract("Closed", <<6>>, 50, 0), Contract("Open", <<7>>, 0, 0)>>,
          <<Contract("Open", <<>>, 97, 0), Contract("Open", <<6>>, 2, 0)>> }}

InitPredictit ==
    /\ FetchCall
    /\ fetcher = "predictit"
    /\ now \in FetchNow
    /\ lookahead \in FetchLookahead
    /\ server \in Answers(RawLists(PredictitKinds))

PredictitFetch ==
    /\ fetcher = "predictit"
    /\ fpc = "start"
    /\ requests' = 1
    /\ IF server.status # "ok"
       THEN /\ fetched' = <<>>
            /\ settled' = Fail
            /\ fpc' = "threw"
       ELSE /\ fetched' = StableSort(PredictitMarkets(server.body, now, lookahead),
                                     EndDateCmp)
            /\ settled' = Returns(fetched')
            /\ fpc' = "returned"
    /\ UNCHANGED <<scanVars, fetcher, now, lookahead, server, pages, cursor>>

(***************************************************************************)
(* metaculus.fetchMarkets                                                  *)
(***************************************************************************)
\* prediction !== undefined ? prediction * 100 : 50, q2 in hundredths
MetaculusYes(raw) == IF raw.q2 = <<>> THEN Pct(50) ELSE Pct(raw.q2[1])

MetaculusMarket(raw, t, minutes) ==
    IF raw.close_time = <<>> THEN <<>>
    ELSE IF ~InWindow(raw.close_time[1], t, minutes) THEN <<>>
    ELSE <<Market(raw.id, "metaculus", raw.close_time[1],
                  <<MetaculusYes(raw), Complement(MetaculusYes(raw))>>,
                  raw.prediction_count)>>

MetaculusMarkets(raws, t, minutes) ==
    Flatten([i \in 1..Len(raws) |-> MetaculusMarket(raws[i], t, minutes)])

MetaculusKinds ==
    { [close_time |-> <<6>>, q2 |-> <<97>>, prediction_count |-> 10000],
      [close_time |-> <<7>>, q2 |-> <<>>,   prediction_count |-> 0],
      [close_time |-> <<7>>, q2 |-> <<0>>,  prediction_count |-> 1000],
      [close_time |-> <<8>>, q2 |-> <<40>>, prediction_count |-> 0],
      [close_time |-> <<5>>, q2 |-> <<40>>, prediction_count |-> 0],
      [close_time |-> <<>>,  q2 |-> <<40>>, prediction_count |-> 0] }

InitMetaculus ==
    /\ FetchCall
    /\ fetcher = "metaculus"
    /\ now \in FetchNow
    /\ lookahead \in FetchLookahead
    /\ server \in Answers(RawLists(MetaculusKinds))

\* the fetch is outside any try block: a throw rejects the call, a non-OK
\* status returns []
MetaculusFetch ==
    /\ fetcher = "metaculus"
    /\ fpc = "start"
    /\ requests' = 1
    /\ IF server.status = "throw"
       THEN /\ fetched' = <<>>
            /\ settled' = Fail
            /\ fpc' = "threw"
       ELSE /\ fetched' = IF server.status = "error" THEN <<>>
                          ELSE StableSort(MetaculusMarkets(server.body, now, lookahead),
                                          EndDateCmp)
            /\ settled' = Returns(fetched')
            /\ fpc' = "returned"
    /\ UNCHANGED <<scanVars, fetcher, now, lookahead, server, pages, cursor>>

(***************************************************************************)
(* manifold.fetchMarkets                                                   *)
(***************************************************************************)
\* (raw.probability || 0.5) * 100, probability in hundredths
ManifoldProbability(raw) ==
    IF raw.probability = <<>> \/ raw.probability = <<0>> THEN Pct(50)
    ELSE Pct(raw.probability[1])

ManifoldMarket(raw, t, minutes) ==
    IF raw.isResolved THEN <<>>
    ELSE IF raw.outcomeType # "BINARY" THEN <<>>
    ELSE IF raw.closeTime = <<>> THEN <<>>
    ELSE IF ~InWindow(raw.closeTime[1], t, minutes) THEN <<>>
    ELSE <<Market(raw.id, "manifold", raw.closeTime[1],
                  <<ManifoldProbability(raw), Complement(ManifoldProbability(raw))>>,
                  raw.volume24Hours)>>

ManifoldMarkets(raws, t, minutes) ==
    Flatten([i \in 1..Len(raws) |-> ManifoldMarket(raws[i], t, minutes)])

ManifoldRaw(isResolved, outcomeType, closeTime, probability, volume24Hours) ==
    [isResolved |-> isResolved, outcomeType |-> outcomeType,
     closeTime |-> closeTime, probability |-> probability,
     volume24Hours |-> volume24Hours]
ManifoldKinds ==
    { ManifoldRaw(FALSE, "BINARY", <<6>>, <<97>>, 10000),
      ManifoldRaw(FALSE, "BINARY", <<7>>, <<0>>, 1000),
      ManifoldRaw(FALSE, "BINARY", <<7>>, <<>>, 0),
      ManifoldRaw(FALSE, "BINARY", <<8>>, <<40>>, 0),
      ManifoldRaw(FALSE, "BINARY", <<5>>, <<40>>, 0),
      ManifoldRaw(FALSE, "BINARY", <<>>, <<40>>, 0),
      ManifoldRaw(TRUE, "BINARY", <<6>>, <<40>>, 0),
      ManifoldRaw(FALSE, "MULTIPLE_CHOICE", <<6>>, <<>>, 0) }

InitManifold ==
    /\ FetchCall
    /\ fetcher = "manifold"
    /\ now \in FetchNow
    /\ lookahead \in FetchLookahead
    /\ server \in Answers(RawLists(ManifoldKinds))

\* the whole body is in a try block whose catch returns []
ManifoldFetch ==
    /\ fetcher = "manifold"
    /\ fpc = "start"
    /\ requests' = 1
    /\ fetched' = IF server.status # "ok" THEN <<>>
                  ELSE StableSort(ManifoldMarkets(server.body, now, lookahead),
                                  EndDateCmp)
    /\ settled' = Returns(fetched')
    /\ fpc' = "returned"
    /\ UNCHANGED <<scanVars, fetcher, now, lookahead, server, pages, cursor>>

(***************************************************************************)
(* augur.fetchMarkets                                                      *)
(***************************************************************************)
\* the subgraph's answer to the query
\* "where: { endTime_gt: floor(now), endTime_lt: floor(cutoff) }";
\* times are whole seconds here, on which Math.floor is the identity
AugurQuery(store, t, minutes) ==
    SelectSeq(store, LAMBDA raw : raw.endTime > t /\ raw.endTime < Cutoff(t, minutes))

\* (raw.outcomes || ['Yes', 'No']).map(... probability: 50 ...)
AugurOutcomes(raw) ==
    IF raw.outcomes = <<>> THEN <<Pct(50), Pct(50)>>
    ELSE [i \in 1..Len(raw.outcomes[1]) |-> Pct(50)]

\* the loop over rawMarkets: every market of the answer is pushed, and
\* the list is returned as it is
AugurMarkets(raws) ==
    [i \in 1..Len(raws) |->
        Market(raws[i].id, "augur", raws[i].endTime, AugurOutcomes(raws[i]),
               raws[i].volume)]

AugurKinds ==
    { [endTime |-> 6, outcomes |-> <<>>, volume |-> 0],
      [endTime |-> 6, outcomes |-> <<<<"A", "B", "C">>>>, volume |-> 1000],
      [endTime |-> 7, outcomes |-> <<>>, volume |-> 0],
      [endTime |-> 5, outcomes |-> <<>>, volume |-> 0],
      [endTime |-> 8, outcomes |-> <<>>, volume |-> 0] }

InitAugur ==
    /\ FetchCall
    /\ fetcher = "augur"
    /\ now \in FetchNow
    /\ lookahead \in {2, 3}
    /\ server \in Answers(RawLists(AugurKinds))

\* the request is in a try block whose catch returns []
AugurFetch ==
    /\ fetcher = "augur"
    /\ fpc = "start"
    /\ requests' = 1
    /\ fetched' = IF server.status # "ok" THEN <<>>
                  ELSE AugurMarkets(AugurQuery(server.body, now, lookahead))
    /\ settled' = Returns(fetched')
    /\ fpc' = "returned"
    /\ UNCHANGED <<scanVars, fetcher, now, lookahead, server, pages, cursor>>

(***************************************************************************)
(* oddsapi.fetchMarkets                                                    *)
(***************************************************************************)
\* decimal odds are counted in quarters: 8 is 2.00, 5 is 1.25
OddsUnit == 2 * 2

\* (1 / decimal) * 100
decimalToProb(decimal) == (Pct(100) * OddsUnit) \div decimal

prioritySports ==
    << "americanfootball_nfl", "basketball_nba", "icehockey_nhl", "soccer_epl",
       "soccer_uefa_champs_league", "politics_us_presidential_election_winner" >>

\* the best (highest) odds of each outcome over the bookmakers of an event,
\* every bookmaker quoting the same outcomes in the same order
aggregateBestOdds(event) ==
    IF event.bookmakers = <<>> THEN <<>>
    ELSE [i \in 1..Len(event.bookmakers[1]) |->
             CHOOSE best \in {event.bookmakers[b][i] : b \in DOMAIN event.bookmakers} :
                 \A b \in DOMAIN event.bookmakers : event.bookmakers[b][i] <= best]

\* the body of "for (const event of events)"; volume24h is not set
OddsapiMarket(sport, event, t, minutes) ==
    IF ~sport.has_outrights /\ ~InWindow(event.commence_time, t, minutes) THEN <<>>
    ELSE IF Len(aggregateBestOdds(event)) < 2 THEN <<>>
    ELSE <<Market(event.id, "oddsapi", event.commence_time,
                  [i \in 1..Len(aggregateBestOdds(event)) |->
                      decimalToProb(aggregateBestOdds(event)[i])], 0)>>

\* sports.find(s => s.key === sportKey): the found sports, at most one
FindSport(sports, sportKey) ==
    LET found == SelectSeq(sports, LAMBDA sp : sp.key = sportKey) IN
    IF found = <<>> THEN <<>> ELSE <<found[1]>>

\* one iteration of "for (const sportKey of prioritySports)"
SportMarkets(sports, sportKey, t, minutes) ==
    LET sport == FindSport(sports, sportKey) IN
    IF sport = <<>> THEN <<>>
    ELSE IF ~sport[1].active THEN <<>>
    ELSE IF sport[1].odds.status # "ok" THEN <<>>
    ELSE Flatten([i \in 1..Len(sport[1].odds.body) |->
                     OddsapiMarket(sport[1], sport[1].odds.body[i], t, minutes)])

\* the sports whose odds are requested
Requested(sports) ==
    {i \in DOMAIN prioritySports :
        /\ FindSport(sports, prioritySports[i]) # <<>>
        /\ FindSport(sports, prioritySports[i])[1].active}

\* a fetch or json() that throws inside the try block
OddsapiThrows(srv) ==
    \/ srv.status = "throw"
    \/ /\ srv.status = "ok"
       /\ \E i \in Requested(srv.body) :
              FindSport(srv.body, prioritySports[i])[1].odds.status = "throw"

OddsapiMarkets(srv, t, minutes) ==
    IF OddsapiThrows(srv) \/ srv.status = "error" THEN <<>>
    ELSE StableSort(Flatten([i \in DOMAIN prioritySports |->
                                SportMarkets(srv.body, prioritySports[i], t, minutes)]),
                    EndDateCmp)

OddsapiEvent(commence_time, bookmakers) ==
    [commence_time |-> commence_time, bookmakers |-> bookmakers]
OddsapiEvents ==
    { OddsapiEvent(6, <<<<8, 8>>, <<10, 5>>>>),
      OddsapiEvent(7, <<<<5, 16>>>>),
      OddsapiEvent(8, <<<<8, 8>>>>),
      OddsapiEvent(5, <<<<8, 8>>>>),
      OddsapiEvent(6, <<<<5>>>>),
      OddsapiEvent(6, <<>>) }

\* the sports list of the API: one of the priority sports or an other sport
OddsapiSports ==
    { <<[key |-> k, active |-> a, has_outrights |-> h, odds |-> o]>> :
          k \in {"basketball_nba", "politics_us_presidential_election_winner",
                 "cricket_ipl"},
          a \in BOOLEAN, h \in BOOLEAN, o \in Answers(RawLists(OddsapiEvents)) }
        \cup {<<>>}

InitOddsapi ==
    /\ FetchCall
    /\ fetcher = "oddsapi"
    /\ now \in FetchNow
    /\ lookahead \in FetchLookahead
    /\ server \in Answers(OddsapiSports)

\* the whole call: the try block and its catch, which returns []
OddsapiFetch ==
    /\ fetcher = "oddsapi"
    /\ fpc = "start"
    /\ requests' = IF server.status # "ok" THEN 1
                   ELSE 1 + Cardinality(Requested(server.body))
    /\ fetched' = OddsapiMarkets(server, now, lookahead)
    /\ settled' = Returns(fetched')
    /\ fpc' = "returned"
    /\ UNCHANGED <<scanVars, fetcher, now, lookahead, server, pages, cursor>>

(***************************************************************************)
(* index.ts: fetchMarkets, the single-platform fetch of both endpoints     *)
(***************************************************************************)
\* the markets nested in events that pass "!market.closed && market.active"
EventMarkets(eventsData) ==
    Flatten([e \in 1..Len(eventsData) |->
                IF eventsData[e].markets = <<>> THEN <<>>
                ELSE SelectSeq(eventsData[e].markets[1],
                               LAMBDA market : ~market.closed /\ market.active)])

\* a loop that pushes every market
KeepAll(ms, seen) == ms

\* the loop "if (!seen.has(market.id)) { seen.add(market.id); push }"
RECURSIVE DedupeById(_, _)
DedupeById(ms, seen) ==
    IF ms = <<>> THEN <<>>
    ELSE IF Head(ms).id \in seen THEN DedupeById(Tail(ms), seen)
    ELSE <<Head(ms)>> \o DedupeById(Tail(ms), seen \cup {Head(ms).id})

\* raw markets as index.ts reads them: an id, the two flags, and the
\* endpoint that served the item standing for its other fields
GammaMarket(id, closed, active, from) ==
    [id |-> id, closed |-> closed, active |-> active, from |-> from]
MarketsEndpointKinds ==
    { GammaMarket(1, FALSE, TRUE, "markets"), GammaMarket(2, FALSE, TRUE, "markets"),
      GammaMarket(1, TRUE, TRUE, "markets") }
EventsEndpointKinds ==
    { GammaMarket(1, FALSE, TRUE, "events"), GammaMarket(2, FALSE, TRUE, "events"),
      GammaMarket(3, FALSE, TRUE, "events"), GammaMarket(3, TRUE, TRUE, "events"),
      GammaMarket(3, FALSE, FALSE, "events") }

\* the events the endpoint answers with: one event holding the markets, or
\* the markets spread over two events around one without a markets field
EventsOver(ms) ==
    {<<[markets |-> <<ms>>]>>}
        \cup IF ms = <<>> THEN {<<[markets |-> <<>>]>>}
             ELSE {<<[markets |-> <<<<Head(ms)>>>>], [markets |-> <<>>],
                     [markets |-> <<Tail(ms)>>]>>}
EventsBodies == UNION {EventsOver(ms) : ms \in SeqsUpTo(EventsEndpointKinds, MaxRaw)}

InitIndex ==
    /\ FetchCall
    /\ fetcher = "index"
    /\ now \in FetchNow
    /\ lookahead \in FetchLookahead
    /\ server \in [markets : Answers(SeqsUpTo(MarketsEndpointKinds, MaxRaw)),
                   events : Answers(EventsBodies)]

\* the whole call. A failure of the markets request rejects Promise.all; a
\* throw of the events request is caught and yields []; an events answer
\* with an error status carries an error object, which the loop over
\* eventsData cannot iterate
IndexFetch ==
    /\ fetcher = "index"
    /\ fpc = "start"
    /\ requests' = 2
    /\ IF server.markets.status # "ok" \/ server.events.status = "error"
       THEN /\ fetched' = <<>>
            /\ settled' = Fail
            /\ fpc' = "threw"
       ELSE /\ fetched' = DedupeById(server.markets.body
                                         \o EventMarkets(server.events.body), {})
            /\ settled' = Returns(fetched')
            /\ fpc' = "returned"
    /\ UNCHANGED <<scanVars, fetcher, now, lookahead, server, pages, cursor>>

InitFetch ==
    \/ InitIndex
    \/ InitKalshi
    \/ InitPolymarket
    \/ InitPredictit
    \/ InitMetaculus
    \/ InitManifold
    \/ InitAugur
    \/ InitOddsapi

NextFetch ==
    \/ IndexFetch
    \/ KalshiStart
    \/ KalshiPage
    \/ KalshiReturn
    \/ PolymarketFetch
    \/ PredictitFetch
    \/ MetaculusFetch
    \/ ManifoldFetch
    \/ AugurFetch
    \/ OddsapiFetch

SpecFetch == InitFetch /\ [][NextFetch]_vars

\* every await of a call settles: the step that follows it is taken
SpecFetchFair == SpecFetch /\ WF_vars(NextFetch)

(***************************************************************************)
(* Properties                                                              *)
(***************************************************************************)
Total(market) == SeqSum(market.outcomes)
MaxProbability(market) ==
    CHOOSE p \in {market.outcomes[i] : i \in DOMAIN market.outcomes} :
        \A i \in DOMAIN market.outcomes : market.outcomes[i] <= p
ReportPath == prog \in {"analyzer", "multi-scanner"}
Scan == prog \in {"multi-scanner", "alerts"}
Key(market) == <<market.platform, market.id>>

\* C1: in one classification pass a market flagged as arbitrage is flagged
\* nothing else: on the report path no second opportunity is emitted for it,
\* and on the alert path a market with an arbitrage alert has no
\* near-certain-high-volume alert.
C1_ArbitrageExclusive ==
    pc = "done" =>
        /\ ReportPath =>
              \A i, j \in DOMAIN opportunities :
                  (/\ opportunities[i].type = "arbitrage"
                   /\ opportunities[j].market = opportunities[i].market) => i = j
        /\ prog = "alerts" =>
              \A i, j \in DOMAIN alerts :
                  (/\ alerts[i].type = "arbitrage"
                   /\ alerts[j].market = alerts[i].market)
                      => alerts[j].type # "near-certain-high-volume"

\* C2: every market with at least 2 outcomes and 0 < total < 98 yields, on
\* the report path, an arbitrage opportunity with riskLevel no-risk and
\* edge = 100 - total, and on the alert path an arbitrage alert with that edge.
C2_ArbitrageDetected ==
    pc = "done" =>
        \A k \in DOMAIN allMarkets :
            LET m == allMarkets[k] IN
            (Len(m.outcomes) >= 2 /\ Total(m) > 0 /\ Total(m) < Pct(98)) =>
                /\ ReportPath =>
                      \E i \in DOMAIN opportunities :
                          /\ opportunities[i].market = m
                          /\ opportunities[i].type = "arbitrage"
                          /\ opportunities[i].riskLevel = "no-risk"
                          /\ opportunities[i].edge = Pct(100) - Total(m)
                /\ prog = "alerts" =>
                      \E i \in DOMAIN alerts :
                          /\ alerts[i].market = m
                          /\ alerts[i].type = "arbitrage"
                          /\ alerts[i].edge = Pct(100) - Total(m)

\* a finished alert scan over a market of three outcomes whose total lies
\* strictly between 0 and 98
C2_Witness ==
    /\ pc = "done"
    /\ prog = "alerts"
    /\ \E k \in DOMAIN allMarkets :
           /\ Len(allMarkets[k].outcomes) = 3
           /\ Total(allMarkets[k]) > 0
           /\ Total(allMarkets[k]) < Pct(98)
    /\ alerts # <<>>

\* C3: a market whose probabilities sum to 0 or less is never classified as
\* arbitrage, on the report path or on the alert path.
C3_ArbitrageNeedsPositiveTotal ==
    pc = "done" =>
        /\ \A i \in DOMAIN opportunities :
               opportunities[i].type = "arbitrage"
                   => Total(opportunities[i].market) > 0
        /\ \A i \in DOMAIN alerts :
               alerts[i].type = "arbitrage" => Total(alerts[i].market) > 0


\* what the i-th call of the scan returned: the markets of its adapter, none
\* when the adapter rejected
Returned(i) ==
    IF remote[calls[i].adapter].ok THEN remote[calls[i].adapter].markets ELSE <<>>
Concatenation == Flatten([i \in 1..Len(calls) |-> Returned(i)])

\* C4: when the adapter results of one scan contain two markets with the same
\* (platform, id), the aggregated market list contains exactly one of them,
\* the first encountered in concatenation order.
C4_Deduplicated ==
    (pc = "done" /\ Scan) =>
        \A i \in DOMAIN Concatenation :
            LET first == CHOOSE f \in DOMAIN Concatenation :
                            /\ Key(Concatenation[f]) = Key(Concatenation[i])
                            /\ \A g \in 1..(f - 1) :
                                   Key(Concatenation[g]) # Key(Concatenation[i])
                kept == {k \in DOMAIN allMarkets :
                            Key(allMarkets[k]) = Key(Concatenation[i])}
            IN  /\ Cardinality(kept) = 1
                /\ \A k \in kept : allMarkets[k] = Concatenation[first]

\* C5: the aggregated market list of a scan is sorted ascending by endDate
\* across all adapters.
C5_SortedByExpiry ==
    (pc = "done" /\ Scan) =>
        \A i, j \in DOMAIN allMarkets :
            i < j => allMarkets[i].endDate <= allMarkets[j].endDate

\* C6: whatever subset of the adapters rejects, the finished scan has
\* exited normally and its aggregated list contains every market returned by
\* each adapter that fulfilled; a failed adapter contributes no market.
C6_Resilient ==
    (pc = "done" /\ Scan) =>
           /\ exitCode \in {0, 1}
           /\ \A i \in DOMAIN calls :
                  \A k \in DOMAIN Returned(i) :
                      \E p \in DOMAIN allMarkets : allMarkets[p] = Returned(i)[k]
           /\ Len(allMarkets) = SeqSum([i \in DOMAIN calls |-> Len(Returned(i))])

\* a finished scan in which one adapter rejected and another returned markets
C6_Witness ==
    /\ pc = "done"
    /\ \E i, j \in DOMAIN calls :
           /\ ~remote[calls[i].adapter].ok
           /\ remote[calls[j].adapter].ok
           /\ Len(remote[calls[j].adapter].markets) = 2
    /\ Len(allMarkets) >= 2

\* C7: every selected adapter's fetchMarkets is started before the scan
\* awaits, and the scan combines the results only when no call is pending.
C7_FanOutFanIn ==
    /\ (Scan /\ pc # "start") =>
           /\ Len(results) = Len(calls)
           /\ prog = "multi-scanner" =>
                  [i \in DOMAIN calls |-> calls[i].adapter] = Fetchers(selectedPlatforms)
           /\ prog = "alerts" =>
                  [i \in DOMAIN calls |-> calls[i].adapter]
                      = <<"polymarket", "predictit", "manifold", "oddsapi">>
    /\ (Scan /\ pc = "done") =>
           \A i \in DOMAIN results : results[i].status # "pending"

\* a scan still suspended although one call has rejected and another has
\* fulfilled, because a third is pending
C7_Witness ==
    /\ pc = "await"
    /\ \E i, j, k \in DOMAIN results :
           /\ results[i].status = "pending"
           /\ ~remote[calls[j].adapter].ok /\ results[j].status # "pending"
           /\ remote[calls[k].adapter].ok /\ results[k].status = "fulfilled"

\* C8: the aggregated list is the concatenation of the adapters' returned
\* sequences in configured (call) order, whatever the order of completion.
C8_OrderByConfiguration ==
    (pc = "done" /\ Scan) => allMarkets = Concatenation

\* a finished scan that combined two different non-empty adapter results
C8_Witness ==
    /\ pc = "done"
    /\ Scan
    /\ \E i, j \in DOMAIN calls :
           /\ i < j
           /\ Returned(i) # <<>>
           /\ Returned(j) # <<>>
           /\ calls[i].adapter # calls[j].adapter

\* C9 as stated: every adapter of a scan is invoked with the configured
\* lookahead, on the multi-scanner path and on the alert path.
C9_SameLookahead ==
    (Scan /\ pc # "start") =>
        \A i \in DOMAIN calls : calls[i].minutes = ParseMinutes(cliMinutes)

\* C9 amended: the multi-scanner invokes every adapter with the configured
\* lookahead; the alert scan invokes polymarket and oddsapi with it,
\* predictit with ten times it and manifold with five times it.
C9_LookaheadPerPath ==
    (Scan /\ pc # "start") =>
        \A i \in DOMAIN calls :
            calls[i].minutes =
                ParseMinutes(cliMinutes) *
                    (IF prog = "alerts" /\ calls[i].adapter = "predictit" THEN 10
                     ELSE IF prog = "alerts" /\ calls[i].adapter = "manifold" THEN 5
                     ELSE 1)

\* an alert scan started with --minutes 60
C9_Witness ==
    /\ prog = "alerts"
    /\ pc = "await"
    /\ cliMinutes = <<60>>
    /\ Len(calls) = 4
    /\ calls[2].minutes = 600

\* C10: in the ranked list every no-risk opportunity precedes every low-risk
\* one, which precedes every medium-risk one, regardless of edge; within one
\* riskLevel the order is by descending edge.
C10_RankingPrecedence ==
    (pc = "done" /\ ReportPath) =>
        \A i, j \in DOMAIN opportunities :
            i < j =>
                LET a == opportunities[i]
                    b == opportunities[j]
                    Level(o) == CASE o.riskLevel = "no-risk" -> 0
                                  [] o.riskLevel = "low-risk" -> 1
                                  [] o.riskLevel = "medium-risk" -> 2
                IN  \/ Level(a) < Level(b)
                    \/ (Level(a) = Level(b) /\ a.edge >= b.edge)

\* a ranked list in which a no-risk opportunity precedes a riskier one of
\* larger edge, whose market came earlier in the input
C10_Witness ==
    /\ pc = "done"
    /\ ReportPath
    /\ \E i, j \in DOMAIN opportunities :
           /\ i < j
           /\ opportunities[i].riskLevel = "no-risk"
           /\ opportunities[j].riskLevel = "medium-risk"
           /\ opportunities[i].edge < opportunities[j].edge
           /\ opportunities[i].market.id > opportunities[j].market.id

\* the position of a market in the aggregated input list
PositionOf(market) == CHOOSE k \in DOMAIN allMarkets : allMarkets[k] = market

\* C11: two opportunities with identical riskLevel and identical edge appear
\* in the ranked output in the relative order of their markets in the
\* aggregated input list.
C11_StableRanking ==
    (pc = "done" /\ ReportPath) =>
        \A i, j \in DOMAIN opportunities :
            (/\ i < j
             /\ opportunities[i].riskLevel = opportunities[j].riskLevel
             /\ opportunities[i].edge = opportunities[j].edge)
                => PositionOf(opportunities[i].market)
                       < PositionOf(opportunities[j].market)

\* a ranked list with two opportunities of equal riskLevel and edge, from
\* different markets, behind an opportunity the sort moved ahead of them
C11_Witness ==
    /\ pc = "done"
    /\ ReportPath
    /\ \E i, j, k \in DOMAIN opportunities :
           /\ k < i /\ i < j
           /\ opportunities[i].riskLevel = opportunities[j].riskLevel
           /\ opportunities[i].edge = opportunities[j].edge
           /\ opportunities[i].market # opportunities[j].market
           /\ PositionOf(opportunities[k].market) > PositionOf(opportunities[j].market)

\* C12: on the report path the edge of every near-certain opportunity equals
\* max minus 100 / outcomes.length, for every number of outcomes >= 2, in
\* findOpportunities and in analyzeMarket.
C12_EdgeOverUniformPrior ==
    (pc = "done" /\ ReportPath) =>
        \A i \in DOMAIN opportunities :
            opportunities[i].type = "near-certain" =>
                opportunities[i].edge =
                    MaxProbability(opportunities[i].market)
                        - (Pct(100) \div Len(opportunities[i].market.outcomes))

\* C13: on the report path a market with at least 2 outcomes whose max
\* probability is below the near-certain threshold and whose total exceeds
\* 102 yields a mispriced opportunity with riskLevel medium-risk and
\* edge = total - 100, in findOpportunities and in analyzeMarket.
C13_MispricedDetected ==
    (pc = "done" /\ ReportPath) =>
        \A k \in DOMAIN allMarkets :
            LET m == allMarkets[k] IN
            (/\ Len(m.outcomes) >= 2
             /\ MaxProbability(m) < Pct(threshold)
             /\ Total(m) > Pct(102)) =>
                \E i \in DOMAIN opportunities :
                    /\ opportunities[i].market = m
                    /\ opportunities[i].type = "mispriced"
                    /\ opportunities[i].riskLevel = "medium-risk"
                    /\ opportunities[i].edge = Total(m) - Pct(100)

NearCertainSeverities(market) ==
    {alerts[i].severity : i \in {k \in DOMAIN alerts :
                                   /\ alerts[k].market = market
                                   /\ alerts[k].type = "near-certain-high-volume"}}

C16_ExitStatusSignalsCritical ==
    (pc = "done" /\ prog = "alerts") =>
        (exitCode = 1 <=> \E i \in DOMAIN alerts : alerts[i].severity = "critical")

\* the markets of a list that have at least 2 outcomes, in order
Classifiable(markets) == SelectSeq(markets, LAMBDA m : Len(m.outcomes) >= 2)

\* C17: a market with fewer than 2 outcomes yields no opportunity on the
\* report path and no alert on the alert path, the run ends without an
\* error, and the remaining markets are classified as if the short markets
\* were not in the list.
C17_ShortMarketsSkipped ==
    pc = "done" =>
        /\ exitCode \in {0, 1}
        /\ \A i \in DOMAIN opportunities :
               Len(opportunities[i].market.outcomes) >= 2
        /\ \A i \in DOMAIN alerts : Len(alerts[i].market.outcomes) >= 2
        /\ prog = "analyzer" =>
               opportunities = findOpportunities(Classifiable(allMarkets), threshold)
        /\ prog = "multi-scanner" =>
               opportunities = SortOpportunities(AnalyzeAll(Classifiable(allMarkets)))
        /\ prog = "alerts" => alerts = ClassifyAlerts(Classifiable(allMarkets))

\* a finished alert scan over a market without outcomes, then a market with
\* one outcome, then a market that got an alert
C17_Witness ==
    /\ pc = "done"
    /\ prog = "alerts"
    /\ Len(allMarkets) = 3
    /\ Len(allMarkets[1].outcomes) = 0
    /\ Len(allMarkets[2].outcomes) = 1
    /\ \E i \in DOMAIN alerts : alerts[i].market = allMarkets[3]

C19_NoOpportunityInBand ==
    (pc = "done" /\ ReportPath /\ threshold = 90) =>
        \A k \in DOMAIN allMarkets :
            LET m == allMarkets[k] IN
            (/\ Len(m.outcomes) >= 2
             /\ MaxProbability(m) < Pct(90)
             /\ Total(m) >= Pct(98)
             /\ Total(m) <= Pct(102)) =>
                \A i \in DOMAIN opportunities : opportunities[i].market # m

\* a finished analyzer run with threshold 90 over a market of three outcomes
\* whose total is exactly 102 and whose max is below 90, with no opportunity
C19_Witness ==
    /\ pc = "done"
    /\ prog = "analyzer"
    /\ threshold = 90
    /\ \E k \in DOMAIN allMarkets :
           /\ Len(allMarkets[k].outcomes) = 3
           /\ Total(allMarkets[k]) = Pct(102)
           /\ MaxProbability(allMarkets[k]) < Pct(90)
    /\ opportunities = <<>>

\* C20: a run given a non-positive --minutes value starts no adapter fetch
\* and ends as a failure.
C20_NonPositiveLookaheadFailsFast ==
    (Scan /\ cliMinutes # <<>> /\ cliMinutes[1] <= 0) =>
        /\ calls = <<>>
        /\ pc = "done" => exitCode \notin {Null, 0}

\* the request after which the Kalshi loop must stop: the first one whose
\* response is an error, throws or carries no cursor, and the fifth at the
\* latest
KalshiLastRequest(srv) ==
    LET stops == {r \in 1..5 : r = srv.failAt \/ r > srv.cursors}
    IN  IF stops = {} THEN 5
        ELSE CHOOSE r \in stops : \A q \in stops : r <= q

\* C27: a call of kalshi.fetchMarkets always returns, issues at most 5 page
\* requests even when every response carries a cursor, and stops at the
\* first response that has no cursor or is not OK.
C27_PaginationBounded ==
    /\ [](fetcher = "kalshi" =>
            /\ requests <= 5
            /\ fpc = "returned" => requests = KalshiLastRequest(server))
    /\ (fetcher = "kalshi" => <>(fpc = "returned"))

\* a Kalshi call that returned after 5 requests although every response
\* carried a cursor
C27_Witness ==
    /\ fetcher = "kalshi"
    /\ fpc = "returned"
    /\ server.cursors > 5
    /\ server.failAt = 0
    /\ requests = 5
    /\ Len(fetched) = 5

\* C21: a fetchMarkets call in which a request failed (a non-OK status or a
\* throw) does not fulfil; in particular a Kalshi call whose page request
\* after the first fails does not fulfil with the markets of the earlier
\* pages.
C21_NoPartialResult ==
    /\ (fetcher = "polymarket" /\ fpc # "start" /\ server.status # "ok")
           => settled = Fail
    /\ (fetcher = "kalshi" /\ server.failAt > 1 /\ requests >= server.failAt)
           => ~(fpc = "returned" /\ settled.ok)

\* C22: a raw Polymarket market whose outcomes or outcomePrices text cannot
\* be parsed does not appear in the list polymarket.fetchMarkets returns.
C22_UnparsableDropped ==
    (fetcher = "polymarket" /\ fpc = "returned") =>
        \A i \in DOMAIN server.body :
            (~server.body[i].outcomes.valid \/ ~server.body[i].outcomePrices.valid)
                => \A k \in DOMAIN settled.markets :
                       settled.markets[k].id # server.body[i].id


\* the types a market is classified as by the two report-path classifiers
\* (the analyzer at either threshold, the multi-scanner) and by the alert scan
ClassifiedTypes(market) ==
    UNION {{AnalyzerClassify(market, th)[k].type :
                k \in DOMAIN AnalyzerClassify(market, th)} : th \in Thresholds}
        \cup {analyzeMarket(market).type}
        \cup {AlertsFor(market)[k].type : k \in DOMAIN AlertsFor(market)}

BinaryAdapters == {"kalshi", "metaculus", "manifold"}

\* C29: every market returned by the Kalshi, Metaculus or Manifold adapter
\* has exactly two outcomes, Yes = p and No = 100 - p, whose total is 100,
\* and is classified neither arbitrage nor mispriced by any classifier.
C29_BinaryComplement ==
    (fetcher \in BinaryAdapters /\ fpc = "returned") =>
        \A k \in DOMAIN settled.markets :
            LET m == settled.markets[k] IN
            /\ Len(m.outcomes) = 2
            /\ m.outcomes[2] = Pct(100) - m.outcomes[1]
            /\ Total(m) = Pct(100)
            /\ ClassifiedTypes(m) \cap {"arbitrage", "mispriced"} = {}

\* each of the three adapters returns a market, one of them near-certain
C29_Witness ==
    /\ fetcher \in BinaryAdapters
    /\ fpc = "returned"
    /\ Len(settled.markets) = 2
    /\ settled.markets[1].outcomes = <<Pct(97), Pct(3)>>
    /\ "near-certain" \in ClassifiedTypes(settled.markets[1])


\* C28: every market returned by an adapter's fetchMarkets(minutesAhead) has
\* an endDate strictly later than the fetch time and not later than the
\* fetch time plus minutesAhead.
C28_WithinWindow ==
    (fetcher \in Adapters /\ fpc = "returned") =>
        \A k \in DOMAIN settled.markets :
            InWindow(settled.markets[k].endDate, now, lookahead)


\* the concatenation index.ts deduplicates: the markets-endpoint result
\* followed by the open, active markets nested in events
IndexConcatenation == server.markets.body \o EventMarkets(server.events.body)

\* the positions of the concatenation that hold the first market of an id
FirstOccurrences ==
    {i \in DOMAIN IndexConcatenation :
        \A j \in 1..(i - 1) : IndexConcatenation[j].id # IndexConcatenation[i].id}

\* C26: the list index.ts fetchMarkets returns has no two markets with the
\* same id and consists of the first occurrence of every id of the
\* concatenation, in the order of the concatenation.
C26_FirstOccurrenceKept ==
    (fetcher = "index" /\ fpc = "returned") =>
        /\ \A i, j \in DOMAIN settled.markets :
               settled.markets[i].id = settled.markets[j].id => i = j
        /\ Len(settled.markets) = Cardinality(FirstOccurrences)
        /\ \A k \in DOMAIN settled.markets :
               \E i \in FirstOccurrences :
                   /\ Cardinality({j \in FirstOccurrences : j < i}) = k - 1
                   /\ settled.markets[k] = IndexConcatenation[i]

\* an id served by both endpoints is returned as the markets endpoint
\* served it, ahead of a market that only the events endpoint served
C26_Witness ==
    /\ fetcher = "index"
    /\ fpc = "returned"
    /\ Len(IndexConcatenation) = 4
    /\ IndexConcatenation[3] = GammaMarket(1, FALSE, TRUE, "events")
    /\ settled.markets = << GammaMarket(1, TRUE, TRUE, "markets"),
                            GammaMarket(2, FALSE, TRUE, "markets"),
                            GammaMarket(3, FALSE, TRUE, "events") >>

\* C25: in the list scanForAlerts returns every critical alert precedes
\* every high alert and every high alert precedes every medium alert, and
\* alerts of equal severity are in the order in which their markets were
\* scanned.
C25_AlertsBySeverity ==
    (prog = "alerts" /\ pc = "done") =>
        LET rank == [sev \in {"critical", "high", "medium"} |->
                        IF sev = "critical" THEN 1 ELSE IF sev = "high" THEN 2 ELSE 3]
        IN  \A i, j \in DOMAIN alerts :
                i < j =>
                    /\ rank[alerts[i].severity] <= rank[alerts[j].severity]
                    /\ alerts[i].severity = alerts[j].severity
                           => PositionOf(alerts[i].market) < PositionOf(alerts[j].market)

\* a critical alert of the last market scanned stands ahead of two alerts of
\* equal severity from earlier markets
C25_Witness ==
    /\ prog = "alerts"
    /\ pc = "done"
    /\ \E i, j, k \in DOMAIN alerts :
           /\ i < j /\ j < k
           /\ alerts[i].severity = "critical"
           /\ alerts[j].severity = alerts[k].severity
           /\ alerts[j].severity # "critical"
           /\ PositionOf(alerts[i].market) > PositionOf(alerts[k].market)


\* what a classifier decided for a market, from the opportunities emitted:
\* the type, riskLevel, totalProbability and edge of each
Decision(opps) ==
    {[type |-> o.type, riskLevel |-> o.riskLevel,
      totalProbability |-> o.totalProbability, edge |-> o.edge] :
         o \in {opps[k] : k \in DOMAIN opps}}

\* the decision of analyzeMarket, which returns an opportunity or null
ScannerDecision(market) ==
    IF analyzeMarket(market) = NoOpportunity THEN {}
    ELSE Decision(<<analyzeMarket(market)>>)

BinaryUpTo102(market) == Len(market.outcomes) = 2 /\ Total(market) <= Pct(102)

\* C30: for a market with exactly two outcomes and a total of at most 102
\* the analyzer's findOpportunities at threshold 90 and the multi-scanner's
\* analyzeMarket decide the same: no opportunity, or one of the same type,
\* riskLevel, totalProbability and edge.
C30_ClassifiersAgree ==
    /\ (prog = "analyzer" /\ pc = "done" /\ threshold = 90) =>
           \A k \in DOMAIN allMarkets :
               BinaryUpTo102(allMarkets[k]) =>
                   Decision(SelectSeq(opportunities,
                                      LAMBDA o : o.market = allMarkets[k]))
                       = ScannerDecision(allMarkets[k])
    /\ (prog = "multi-scanner" /\ pc = "done") =>
           \A k \in DOMAIN allMarkets :
               BinaryUpTo102(allMarkets[k]) =>
                   Decision(SelectSeq(opportunities,
                                      LAMBDA o : o.market = allMarkets[k]))
                       = Decision(findOpportunities(<<allMarkets[k]>>, 90))

\* the analyzer at threshold 90 emitted a medium-risk near-certain
\* opportunity for a binary market
C30_Witness ==
    /\ prog = "analyzer"
    /\ pc = "done"
    /\ threshold = 90
    /\ Len(allMarkets) = 1
    /\ BinaryUpTo102(allMarkets[1])
    /\ Len(opportunities) = 1
    /\ opportunities[1].type = "near-certain"
    /\ opportunities[1].riskLevel = "medium-risk"


\* the markets the run was given: the file the analyzer read, or what the
\* adapters of the scan returned, in call order
GivenMarkets == IF prog = "analyzer" THEN inputFile ELSE Concatenation

\* C23: after findOpportunities, analyzeMarket or scanForAlerts has processed
\* the markets, every market has the outcomes it was given, in the same
\* order, and the same other fields; the markets the opportunities and
\* alerts refer to are those same markets.
C23_MarketsNotMutated ==
    pc = "done" =>
        /\ allMarkets = GivenMarkets
        /\ \A k \in DOMAIN opportunities :
               \E i \in DOMAIN allMarkets : opportunities[k].market = allMarkets[i]
        /\ \A k \in DOMAIN alerts :
               \E i \in DOMAIN allMarkets : alerts[k].market = allMarkets[i]

\* a market whose outcomes are not in descending order has been classified
\* as an opportunity, and one as an alert
C23_Witness ==
    /\ pc = "done"
    /\ \E i \in DOMAIN allMarkets :
           /\ Len(allMarkets[i].outcomes) >= 2
           /\ allMarkets[i].outcomes[1] < allMarkets[i].outcomes[2]
           /\ \/ \E k \in DOMAIN opportunities : opportunities[k].market = allMarkets[i]
              \/ \E k \in DOMAIN alerts : alerts[k].market = allMarkets[i]


\* C24: on the report path no market of the scanned list has more than one
\* opportunity, the opportunity list is not longer than the market list,
\* and the market of every opportunity is an element of the market list.
C24_AtMostOnePerMarket ==
    (ReportPath /\ pc = "done") =>
        /\ Len(opportunities) <= Len(allMarkets)
        /\ \A k \in DOMAIN opportunities :
               \E i \in DOMAIN allMarkets : allMarkets[i] = opportunities[k].market
        /\ \A i \in DOMAIN allMarkets :
               Cardinality({k \in DOMAIN opportunities :
                                opportunities[k].market = allMarkets[i]})
                   <= Cardinality({j \in DOMAIN allMarkets : allMarkets[j] = allMarkets[i]})

\* three markets, of which two have an opportunity each and one, which is
\* both below the arbitrage ceiling and near-certain, counts once
C24_Witness ==
    /\ ReportPath
    /\ pc = "done"
    /\ Len(allMarkets) = 3
    /\ Len(opportunities) = 2
    /\ opportunities[1].market # opportunities[2].market
    /\ \E k \in DOMAIN opportunities :
           /\ opportunities[k].type = "arbitrage"
           /\ MaxProbability(opportunities[k].market) >= Pct(97)

====
